---------------------------- MODULE Spec2Model ----------------------------
(***************************************************************************)
(* A model of src/src/WeatherComponent.jsx: the forecast fetcher, the two  *)
(* extraction functions with their field normalisers, and the React        *)
(* component's view state (region, view mode, loading / error, stored      *)
(* summaries) driven by clicks and by the completion of outstanding        *)
(* fetches.                                                                *)
(*                                                                         *)
(* Encoding of JavaScript values                                           *)
(*   - "value or null/undefined" is a sequence of length <= 1:             *)
(*       <<>> is null/undefined, <<v>> is the value v;                     *)
(*   - an array is a sequence, a[i] (0-based) is At(a, i);                 *)
(*   - an object is a record whose properties are all options, an absent   *)
(*     property being <<>>;                                                *)
(*   - a text is a sequence of glyphs (one token per character or unit),   *)
(*     so that String.includes and template literals are computed;         *)
(*     the Japanese glyphs are written in romaji:                          *)
(*       hare = U+6674, ame = U+96E8, kumori = U+66C7, nichi = U+65E5,     *)
(*       <<"fu","mei">> = the "unknown" placeholder of the source.         *)
(***************************************************************************)
EXTENDS Integers, Sequences, FiniteSets, TLC

VARIABLES
    selectedArea,      \* useState('Tokyo'), line 97
    weatherData,       \* useState(null), line 98: the "today" summary
    threeDayWeather,   \* useState(null), line 99
    error,             \* useState(null), line 100
    isLoading,         \* useState(true), line 101
    viewMode,          \* useState('today'), line 102
    inflight,          \* the fetchData calls suspended at the await of line 109
    tz,                \* the execution time zone read by Date.getDate (line 43)
    lastEvent,         \* history: the region click or fetch completion that ran last
    exInput,           \* argument handed to the extraction functions
    exToday,           \* result of extractTodayWeather(exInput)
    exThreeDay         \* result of extractThreeDayWeather(exInput)

vars == <<selectedArea, weatherData, threeDayWeather, error, isLoading, viewMode,
          inflight, tz, lastEvent,
          exInput, exToday, exThreeDay>>

viewState == <<selectedArea, weatherData, threeDayWeather, error, isLoading,
               viewMode, inflight, lastEvent>>

extractState == <<exInput, exToday, exThreeDay>>

-----------------------------------------------------------------------------
(* Bounds of the model *)

\* fetchData calls that may be outstanding at once
MaxInflight == 2

\* longest timeDefines list served (the source keeps the first three)
MaxDefines == 4

-----------------------------------------------------------------------------
(* JavaScript values *)

Null == <<>>

Some(v) == <<v>>

\* a[i] for an array a and a 0-based index i: undefined when out of range
At(a, i) == IF i >= 0 /\ i < Len(a) THEN <<a[i + 1]>> ELSE Null

\* truthiness of an optional string: undefined, null and "" are falsy
TruthyStr(o) == o # Null /\ o[1] # ""

\* truthiness of an optional text (glyph sequence): the empty text is falsy
TruthyText(o) == o # Null /\ o[1] # <<>>

\* the result of evaluating an expression: a value, or a thrown TypeError
Value(o) == [thrown |-> FALSE, v |-> o]

Thrown == [thrown |-> TRUE, v |-> Null]

Unknown == <<"fu", "mei">>

-----------------------------------------------------------------------------
(* Region registry and endpoint *)

Areas == {"Hokkaido", "Tokyo", "Osaka", "Fukuoka"}

AREA_CODES ==
    [a \in Areas |->
        CASE a = "Hokkaido" -> "016000"
          [] a = "Tokyo"    -> "130000"
          [] a = "Osaka"    -> "270000"
          [] a = "Fukuoka"  -> "400000"]

generateApiEndpoint(areaCode) ==
    <<"https://www.jma.go.jp/bosai/forecast/data/forecast/", areaCode, ".json">>

-----------------------------------------------------------------------------
(* Field normalisers *)

\* String.prototype.includes for a one-glyph needle
Includes(text, glyph) == \E i \in 1..Len(text) : text[i] = glyph

getWeatherText(weatherText) ==
    IF weatherText = <<>> THEN Unknown
    ELSE IF Includes(weatherText, "hare") THEN <<"hare", "re">>
    ELSE IF Includes(weatherText, "ame") THEN <<"ame">>
    ELSE IF Includes(weatherText, "kumori") THEN <<"kumori", "ri">>
    ELSE weatherText

\* a timestamp "YYYY-MM-DDThh:mm:ss+09:00" is [date |-> [y, m, d], rest |-> ...];
\* split('T')[0] keeps the date portion
SplitT0(timestamp) == timestamp.date

IsLeap(y) == (y % 4 = 0 /\ y % 100 # 0) \/ y % 400 = 0

DaysInMonth(y, m) ==
    IF m = 2 THEN (IF IsLeap(y) THEN 29 ELSE 28)
    ELSE IF m \in {4, 6, 9, 11} THEN 30 ELSE 31

TimeZones == {"eastOfUTC", "westOfUTC"}

\* new Date("YYYY-MM-DD") is midnight UTC; getDate() reads it in local time,
\* which west of UTC is still the previous calendar day
getDate(date) ==
    IF tz = "westOfUTC"
    THEN (IF date.d > 1 THEN date.d - 1
          ELSE IF date.m > 1 THEN DaysInMonth(date.y, date.m - 1)
          ELSE 31)
    ELSE date.d

formatDate(dateString) ==
    IF dateString = Null THEN Unknown
    ELSE <<ToString(getDate(dateString[1])), "nichi">>

-----------------------------------------------------------------------------
(* Extraction *)

\* data[i]: undefined past the end, or the (possibly null) element
Entry(data, i) == IF i >= 0 /\ i < Len(data) THEN data[i + 1] ELSE Null

\* entry.timeSeries[s]?.areas[0] for a non-null entry: a TypeError when
\* timeSeries is missing, or when bucket s exists and has no areas;
\* undefined (the rest of the chain short-circuits) when bucket s or
\* areas[0] is missing
AreaOf(entry, s) ==
    IF entry.timeSeries = Null THEN Thrown
    ELSE LET bucket == At(entry.timeSeries[1], s) IN
         IF bucket = Null THEN Value(Null)
         ELSE IF bucket[1].areas = Null THEN Thrown
         ELSE Value(At(bucket[1].areas[1], 0))

\* data[i]?.timeSeries[s]?.areas[0]?.<field>[k]
ElemOf(entryOpt, s, field, k) ==
    IF entryOpt = Null THEN Value(Null)
    ELSE LET a == AreaOf(entryOpt[1], s) IN
         IF a.thrown THEN Thrown
         ELSE IF a.v = Null THEN Value(Null)
         ELSE IF a.v[1][field] = Null THEN Thrown
         ELSE Value(At(a.v[1][field][1], k))

\* threeDayData.timeSeries[s]?.areas[0]?.<field> || []
ListOf(entry, s, field) ==
    LET a == AreaOf(entry, s) IN
    IF a.thrown THEN Thrown
    ELSE IF a.v = Null \/ a.v[1][field] = Null THEN Value(<<>>)
    ELSE Value(a.v[1][field][1])

\* data[0]?.reportDatetime.split('T')[0]
RawDateOf(entryOpt) ==
    IF entryOpt = Null THEN Value(Null)
    ELSE IF entryOpt[1].reportDatetime = Null THEN Thrown
    ELSE Value(Some(SplitT0(entryOpt[1].reportDatetime[1])))

extractTodayWeather(data) ==
    IF data = Null \/ Len(data[1]) = 0 THEN Null
    ELSE LET rawDate == RawDateOf(Entry(data[1], 0))
             w       == ElemOf(Entry(data[1], 0), 0, "weathers", 0)
             t       == ElemOf(Entry(data[1], 1), 2, "temps", 1)
             p       == ElemOf(Entry(data[1], 0), 1, "pops", 0)
             weatherText == IF TruthyText(w.v) THEN w.v[1] ELSE Unknown
         IN  IF rawDate.thrown \/ w.thrown \/ t.thrown \/ p.thrown THEN Null
             ELSE Some([date          |-> formatDate(rawDate.v),
                        weather       |-> getWeatherText(weatherText),
                        temperature   |-> IF TruthyStr(t.v) THEN <<t.v[1], "degC">>
                                          ELSE Unknown,
                        precipitation |-> IF TruthyStr(p.v) THEN <<p.v[1], "%">>
                                          ELSE Unknown])

\* timeSeries[0]?.timeDefines || []
DaysOf(entry) ==
    LET bucket == At(entry.timeSeries[1], 0) IN
    IF bucket = Null \/ bucket[1].timeDefines = Null THEN <<>>
    ELSE bucket[1].timeDefines[1]

\* days.slice(0, 3)
Slice3(days) == SubSeq(days, 1, IF Len(days) < 3 THEN Len(days) ELSE 3)

extractThreeDayWeather(data) ==
    IF data = Null \/ Len(data[1]) < 1 THEN Null
    ELSE LET threeDayData == Entry(data[1], 0) IN
         IF threeDayData = Null \/ threeDayData[1].timeSeries = Null THEN Null
         ELSE LET days     == DaysOf(threeDayData[1])
                  weathers == ListOf(threeDayData[1], 0, "weathers")
                  maxTemps == ListOf(threeDayData[1], 1, "temps")
                  minTemps == ListOf(threeDayData[1], 2, "temps")
              IN  IF weathers.thrown \/ maxTemps.thrown \/ minTemps.thrown THEN Null
                  ELSE Some([index \in 1..Len(Slice3(days)) |->
                         [date    |-> formatDate(Some(SplitT0(Slice3(days)[index]))),
                          weather |-> IF TruthyText(At(weathers.v, index - 1))
                                      THEN getWeatherText(weathers.v[index])
                                      ELSE Unknown,
                          maxTemp |-> IF TruthyStr(At(maxTemps.v, index - 1))
                                      THEN <<maxTemps.v[index], "degC">>
                                      ELSE Unknown,
                          minTemp |-> IF TruthyStr(At(minTemps.v, index - 1))
                                      THEN <<minTemps.v[index], "degC">>
                                      ELSE Unknown]])

-----------------------------------------------------------------------------
(* Payloads the provider may serve.  The provider owns the format; a payload *)
(* is described by a shape: which containers and lists are present, and how  *)
(* long the lists are (-1: the property is absent).                          *)

Timestamp(y, m, d) == [date |-> [y |-> y, m |-> m, d |-> d], rest |-> "T11:00:00+09:00"]

\* bulletin of 1 March 2024; forecast days 1, 2, 3, ... March 2024
ReportDatetime == Timestamp(2024, 3, 1)

TimeDefines(n) == [i \in 1..n |-> Timestamp(2024, 3, i)]

WeatherTexts ==
    << <<"hare", "re", "nochi", "ame">>,
       <<"kumori", "ri", "tokidoki", "ame">>,
       <<"kumori", "ri">>,
       <<"yuki">> >>

MaxTemps == <<"21", "19", "23", "20">>

MinTemps == <<"9", "11", "8", "10">>

TodayTemps == <<"10", "22">>

Pops == <<"30", "60">>

\* the first n elements of a list, or the absent property when n < 0;
\* with blank, the elements are empty strings (how the provider marks a
\* value it does not publish)
ListProp(list, n, blank, empty) ==
    IF n < 0 THEN Null
    ELSE Some([i \in 1..n |-> IF blank THEN empty ELSE list[i]])

NoArea == [weathers |-> Null, temps |-> Null, pops |-> Null]

AreasProp(kind, area) ==
    IF kind = "absent" THEN Null
    ELSE IF kind = "empty" THEN Some(<<>>)
    ELSE Some(<<area>>)

Bucket0(sh) ==
    [timeDefines |-> IF sh.nDef < 0 THEN Null ELSE Some(TimeDefines(sh.nDef)),
     areas |-> AreasProp(sh.areas0,
                 [NoArea EXCEPT !.weathers = ListProp(WeatherTexts, sh.nW, sh.blank, <<>>)])]

Bucket1(sh) ==
    [timeDefines |-> Null,
     areas |-> AreasProp(sh.areas1,
                 [NoArea EXCEPT !.pops  = ListProp(Pops, sh.nPop, sh.blank, ""),
                                !.temps = ListProp(MaxTemps, sh.nMax, sh.blank, "")])]

Bucket2(sh) ==
    [timeDefines |-> Null,
     areas |-> AreasProp(sh.areas2,
                 [NoArea EXCEPT !.temps = ListProp(MinTemps, sh.nMin, sh.blank, "")])]

PlainBucket == [timeDefines |-> Null, areas |-> Some(<<NoArea>>)]

Entry0(sh) ==
    IF sh.e0null THEN Null
    ELSE Some([reportDatetime |-> IF sh.report THEN Some(ReportDatetime) ELSE Null,
               timeSeries |->
                 IF sh.ts0 < 0 THEN Null
                 ELSE Some(SubSeq(<<Bucket0(sh), Bucket1(sh), Bucket2(sh)>>, 1, sh.ts0))])

Entry1(sh) ==
    Some([reportDatetime |-> Some(ReportDatetime),
          timeSeries |->
            IF sh.ts1 < 0 THEN Null
            ELSE Some(SubSeq(<<PlainBucket, PlainBucket,
                   [timeDefines |-> Null,
                    areas |-> AreasProp(sh.areas12,
                       [NoArea EXCEPT !.temps =
                            ListProp(TodayTemps, sh.nT1, sh.blank, "")])]>>,
                   1, sh.ts1))])

Payload(sh) == SubSeq(<<Entry0(sh), Entry1(sh)>>, 1, sh.n)

\* the shape of a complete bulletin
WellFormedShape ==
    [n |-> 2, e0null |-> FALSE, report |-> TRUE, ts0 |-> 3, ts1 |-> 3,
     areas0 |-> "one", areas1 |-> "one", areas2 |-> "one", areas12 |-> "one",
     nDef |-> MaxDefines, nW |-> 3, nMax |-> 3, nMin |-> 3, nPop |-> 2, nT1 |-> 2,
     blank |-> FALSE]

\* the other values each property of a shape may take
Deviations ==
    [n |-> {0, 1}, e0null |-> {TRUE}, report |-> {FALSE},
     ts0 |-> {-1, 0, 1, 2}, ts1 |-> {-1, 0, 2},
     areas0 |-> {"absent", "empty"}, areas1 |-> {"absent", "empty"},
     areas2 |-> {"absent", "empty"}, areas12 |-> {"absent", "empty"},
     nDef |-> -1..(MaxDefines - 1), nW |-> {-1, 0, 2}, nMax |-> {-1, 0, 2},
     nMin |-> {-1, 0, 1}, nPop |-> {-1, 0}, nT1 |-> {-1, 0, 1},
     blank |-> {TRUE}]

\* the four values extractTodayWeather reads, each present or absent
LeafShapes ==
    {[WellFormedShape EXCEPT !.report = r, !.nW = w, !.nT1 = t, !.nPop = p] :
        r \in BOOLEAN, w \in {-1, 3}, t \in {-1, 2}, p \in {-1, 2}}

\* every bulletin at most two properties away from the complete one, and
\* every combination of the four leaf values
Shapes ==
    LeafShapes
    \cup UNION {{[WellFormedShape EXCEPT ![fg[1]] = x, ![fg[2]] = y] :
                    x \in Deviations[fg[1]], y \in Deviations[fg[2]]} :
                 fg \in (DOMAIN Deviations) \X (DOMAIN Deviations)}

\* the bulletins served to the component: complete, without report time
\* (only the three-day summary extracts), with a null first report (only
\* the today summary extracts), and empty (neither extracts)
ServedShapes ==
    {WellFormedShape,
     [WellFormedShape EXCEPT !.report = FALSE],
     [WellFormedShape EXCEPT !.e0null = TRUE],
     [WellFormedShape EXCEPT !.n = 0]}

-----------------------------------------------------------------------------
(* Weather fetcher *)

\* how the network call of one fetch ends: fetch() rejects ("network"),
\* the response is not ok ("http"), response.json() rejects ("parse"), or
\* the body parses to a payload
Failure(kind) == [kind |-> kind, body |-> <<>>]

Parsed(body) == [kind |-> "payload", body |-> body]

Outcomes ==
    {Failure("network"), Failure("http"), Failure("parse")}
    \cup {Parsed(Payload(sh)) : sh \in ServedShapes}

\* fetchWeatherData without its try/catch: a failure reaches the caller
fetchWeatherDataUncaught(outcome) ==
    IF outcome.kind = "payload" THEN Value(Some(outcome.body))
    ELSE Thrown

\* fetchWeatherData whose catch block returns an empty array instead of null
fetchWeatherDataEmptyOnFailure(outcome) ==
    IF outcome.kind = "payload" THEN Value(Some(outcome.body))
    ELSE Value(Some(<<>>))

\* lines 19-27: the parsed body, or null from the catch block; never a throw
fetchWeatherData(outcome) ==
    IF outcome.kind = "payload" THEN Value(Some(outcome.body))
    ELSE Value(Null)

-----------------------------------------------------------------------------
(* View state controller *)

ViewModes == {"today", "three-day"}

ErrParse == "data no kaiseki ni shippai shimashita"

ErrRetrieve == "tenki data wo shutoku dekimasen deshita"

DefaultArea == "Tokyo"

NewFetch(area) ==
    [area |-> area, url |-> generateApiEndpoint(AREA_CODES[area])]

Remove(seq, i) == SubSeq(seq, 1, i - 1) \o SubSeq(seq, i + 1, Len(seq))

\* lines 105-109: the effect body up to the await
fetchDataStart(area) ==
    /\ isLoading' = TRUE
    /\ error' = Null
    /\ inflight' = Append(inflight, NewFetch(area))

\* line 138 and the effect's dependency list [selectedArea] (line 127): a
\* click that does not change selectedArea re-runs nothing
setSelectedArea(area) ==
    /\ lastEvent' = [kind |-> "selectRegion", area |-> area]
    /\ IF area = selectedArea
       THEN UNCHANGED <<selectedArea, isLoading, error, inflight>>
       ELSE /\ Len(inflight) < MaxInflight
            /\ selectedArea' = area
            /\ fetchDataStart(area)
    /\ UNCHANGED <<weatherData, threeDayWeather, viewMode, tz, extractState>>

\* setViewMode with viewMode in the effect's dependency list: a toggle
\* would re-run the fetch
setViewModeRefetch(mode) ==
    /\ viewMode' = mode
    /\ IF mode = viewMode
       THEN UNCHANGED <<isLoading, error, inflight>>
       ELSE fetchDataStart(selectedArea)
    /\ UNCHANGED <<selectedArea, weatherData, threeDayWeather, lastEvent, tz,
                   extractState>>

\* lines 148-149
setViewMode(mode) ==
    /\ viewMode' = mode
    /\ UNCHANGED <<selectedArea, weatherData, threeDayWeather, error, isLoading,
                   inflight, lastEvent, tz, extractState>>

\* line 118 left out: a payload from which nothing extracts sets no error
ErrorAfterPayloadUnset(todayWeather, threeDayWeatherData, err) == err

\* line 118
ErrorAfterPayload(todayWeather, threeDayWeatherData, err) ==
    IF todayWeather = Null /\ threeDayWeatherData = Null THEN Some(ErrParse) ELSE err

\* lines 109-123: fetchData resumes with what fetchWeatherData returned; had
\* the awaited call thrown, the rest of fetchData would not run
fetchDataResume(i, result) ==
    LET data                == result.v
        todayWeather        == extractTodayWeather(data)
        threeDayWeatherData == extractThreeDayWeather(data)
    IN  /\ inflight' = Remove(inflight, i)
        /\ lastEvent' = [kind |-> "fetchDone"]
        /\ IF result.thrown
           THEN UNCHANGED <<weatherData, threeDayWeather, error, isLoading>>
           ELSE /\ weatherData' = IF data # Null /\ todayWeather # Null
                                  THEN todayWeather ELSE weatherData
                /\ threeDayWeather' = IF data # Null /\ threeDayWeatherData # Null
                                      THEN threeDayWeatherData ELSE threeDayWeather
                /\ error' = IF data # Null
                            THEN ErrorAfterPayload(todayWeather, threeDayWeatherData, error)
                            ELSE Some(ErrRetrieve)
                /\ isLoading' = FALSE
        /\ UNCHANGED <<selectedArea, viewMode, tz, extractState>>

\* the network call of fetch i ends with the given outcome
settle(i, outcome) ==
    /\ i \in 1..Len(inflight)
    /\ outcome \in Outcomes
    /\ fetchDataResume(i, fetchWeatherData(outcome))

InitView ==
    /\ selectedArea = DefaultArea
    /\ weatherData = Null
    /\ threeDayWeather = Null
    /\ error = Null
    /\ isLoading = TRUE
    /\ viewMode = "today"
    /\ inflight = <<NewFetch(DefaultArea)>>
    /\ lastEvent = [kind |-> "mount"]

InitExtract ==
    /\ exInput = Null
    /\ exToday = Null
    /\ exThreeDay = Null

Init ==
    /\ tz \in TimeZones
    /\ InitView
    /\ InitExtract

Next ==
    \/ \E area \in Areas : setSelectedArea(area)
    \/ \E mode \in ViewModes : setViewMode(mode)
    \/ \E i \in 1..MaxInflight : \E outcome \in Outcomes : settle(i, outcome)

Spec == Init /\ [][Next]_vars

\* The same component when the user never changes the region while a fetch
\* is outstanding: fetches do not overlap
setSelectedAreaWhenIdle(area) ==
    /\ area = selectedArea \/ inflight = <<>>
    /\ setSelectedArea(area)

NextSerial ==
    \/ \E area \in Areas : setSelectedAreaWhenIdle(area)
    \/ \E mode \in ViewModes : setViewMode(mode)
    \/ \E outcome \in Outcomes : settle(1, outcome)

SpecSerial == Init /\ [][NextSerial]_vars

-----------------------------------------------------------------------------
(* The extraction functions on their own: one payload, both functions *)

ExtractInputs == {Null} \cup {Some(Payload(sh)) : sh \in Shapes}

\* exToday and exThreeDay are <<>> until the function has run, then <<result>>
runExtractToday ==
    /\ exToday = <<>>
    /\ exToday' = <<extractTodayWeather(exInput)>>
    /\ UNCHANGED <<exInput, exThreeDay, tz, viewState>>

runExtractThreeDay ==
    /\ exThreeDay = <<>>
    /\ exThreeDay' = <<extractThreeDayWeather(exInput)>>
    /\ UNCHANGED <<exInput, exToday, tz, viewState>>

InitExtractRun ==
    /\ tz \in TimeZones
    /\ InitView
    /\ exInput \in ExtractInputs
    /\ exToday = <<>>
    /\ exThreeDay = <<>>

NextExtract ==
    \/ runExtractToday
    \/ runExtractThreeDay

SpecExtract == InitExtractRun /\ [][NextExtract]_vars

-----------------------------------------------------------------------------
(* Claims about the view state controller *)

\* C1 (as stated): when the response of a fetch started for a region other
\* than the currently selected one arrives, it writes none of weatherData,
\* threeDayWeather, error, isLoading.
C1_StaleResponseWritesNothing ==
    [][\A i \in 1..Len(inflight) : \A outcome \in Outcomes :
          (settle(i, outcome) /\ inflight[i].area # selectedArea)
             => UNCHANGED <<weatherData, threeDayWeather, error, isLoading>>]_vars

Populated == weatherData # Null /\ threeDayWeather # Null /\ error = Null

Failed == error # Null

\* C2 (as stated): whenever isLoading is false, exactly one of "both
\* summaries populated and no error" and "error populated" holds.
C2_ExactlyOneOfBothOrError ==
    ~isLoading => (Populated \/ Failed) /\ ~(Populated /\ Failed)

PartlyPopulated == (weatherData # Null \/ threeDayWeather # Null) /\ error = Null

\* C2 (amended): whenever isLoading is false, exactly one of "at least one
\* summary populated and no error" and "error populated" holds.
C2_ExactlyOneOfSomeOrError ==
    ~isLoading => (PartlyPopulated \/ Failed) /\ ~(PartlyPopulated /\ Failed)

\* a fetch completed with only the today summary extracted (the first
\* report of its payload was null)
C2_Witness ==
    /\ ~isLoading
    /\ lastEvent.kind = "fetchDone"
    /\ weatherData # Null
    /\ threeDayWeather = Null
    /\ error = Null

\* C3 (as stated): every click on a region button, the selected one
\* included, sets isLoading, clears error and starts exactly one fetch for
\* that region's area code.
C3_EverySelectionStartsOneFetch ==
    [][\A area \in Areas :
          setSelectedArea(area)
             => /\ isLoading' = TRUE
                /\ error' = Null
                /\ Len(inflight') = Len(inflight) + 1
                /\ inflight'[Len(inflight')].url = generateApiEndpoint(AREA_CODES[area])]_vars

\* the error the claim expects after a fetch ends with the given outcome
ExpectedError(outcome) ==
    IF outcome.kind # "payload" THEN Some(ErrRetrieve)
    ELSE IF extractTodayWeather(Some(outcome.body)) = Null
            /\ extractThreeDayWeather(Some(outcome.body)) = Null
         THEN Some(ErrParse)
         ELSE Null

\* C4 (as stated): after a fetch completes, error is the retrieve message
\* when there was no data, the (different) parse message when both
\* extractions failed, and null when at least one succeeded, each non-null
\* extraction result being stored.
C4_ErrorDeterminedByOutcome ==
    [][\A i \in 1..Len(inflight) : \A outcome \in Outcomes :
          settle(i, outcome)
             => /\ ErrParse # ErrRetrieve
                /\ error' = ExpectedError(outcome)
                /\ outcome.kind = "payload"
                     => LET today == extractTodayWeather(Some(outcome.body))
                            three == extractThreeDayWeather(Some(outcome.body))
                        IN  /\ today # Null => weatherData' = today
                            /\ three # Null => threeDayWeather' = three]_vars

\* the state after construction: nothing stored, one fetch for the default region
AtStart ==
    /\ selectedArea = DefaultArea
    /\ weatherData = Null
    /\ threeDayWeather = Null
    /\ error = Null
    /\ isLoading
    /\ inflight = <<NewFetch(DefaultArea)>>

\* C5: from the initial state, the first fetch completing with a
\* well-formed payload leaves isLoading false, error null and both
\* summaries non-null; completing with a failure it leaves error the
\* retrieve message and both summaries null.
C5_EndToEnd ==
    [][\A outcome \in Outcomes :
          (AtStart /\ lastEvent'.kind = "fetchDone" /\ settle(1, outcome))
             => /\ outcome = Parsed(Payload(WellFormedShape))
                     => /\ isLoading' = FALSE
                        /\ error' = Null
                        /\ weatherData' # Null
                        /\ threeDayWeather' # Null
                /\ outcome.kind # "payload"
                     => /\ error' = Some(ErrRetrieve)
                        /\ weatherData' = Null
                        /\ threeDayWeather' = Null]_vars

\* the first fetch has completed with both summaries
C5_Witness ==
    /\ lastEvent.kind = "fetchDone"
    /\ selectedArea = DefaultArea
    /\ inflight = <<>>
    /\ ~isLoading
    /\ error = Null
    /\ weatherData # Null
    /\ threeDayWeather # Null

\* C6: the view-mode toggle is enabled in every reachable state, and a step
\* that toggles changes viewMode only: region, summaries, error, isLoading
\* and the outstanding fetches stay as they are.
C6_ViewModeToggleIndependent ==
    /\ [](\A mode \in ViewModes : ENABLED setViewMode(mode))
    /\ [][(viewMode' # viewMode \/ \E mode \in ViewModes : setViewMode(mode))
             => UNCHANGED <<selectedArea, weatherData, threeDayWeather, error,
                            isLoading, inflight>>]_vars

\* the view was toggled while a fetch was outstanding
C6_Witness ==
    /\ viewMode = "three-day"
    /\ isLoading
    /\ inflight # <<>>

\* C7: whatever the outcome of its network call (payload, bad status,
\* transport failure, unparsable body), a fetch that ends hands fetchData a
\* payload or null, never an exception, and the step sets isLoading false.
C7_EveryOutcomeClearsLoading ==
    [][(lastEvent'.kind = "fetchDone" /\ Len(inflight') < Len(inflight))
          => /\ isLoading' = FALSE
             /\ \A outcome \in Outcomes :
                   /\ ~fetchWeatherData(outcome).thrown
                   /\ outcome.kind # "payload" => fetchWeatherData(outcome).v = Null]_vars

\* a fetch that failed has completed and nothing is outstanding
C7_Witness ==
    /\ lastEvent.kind = "fetchDone"
    /\ inflight = <<>>
    /\ error = Some(ErrRetrieve)
    /\ ~isLoading

\* C10 (as stated): with fetches that never overlap, when a fetch has
\* completed without error every stored summary was extracted from the
\* payload just fetched for the selected region.
C10_NoLeftoverSummary ==
    [][\A outcome \in Outcomes :
          (lastEvent'.kind = "fetchDone" /\ settle(1, outcome) /\ error' = Null)
             => /\ inflight[1].area = selectedArea
                /\ weatherData' # Null
                     => weatherData' = extractTodayWeather(Some(outcome.body))
                /\ threeDayWeather' # Null
                     => threeDayWeather' = extractThreeDayWeather(Some(outcome.body))]_vars

-----------------------------------------------------------------------------
(* Claims about the extraction functions *)

\* data[e].timeSeries[s].areas[0].<field>[k] read with every step optional:
\* the value when each container on the way is present, undefined otherwise
LeafOf(data, e, s, field, k) ==
    LET entry == Entry(data, e) IN
    IF entry = Null \/ entry[1].timeSeries = Null THEN Null
    ELSE LET bucket == At(entry[1].timeSeries[1], s) IN
         IF bucket = Null \/ bucket[1].areas = Null THEN Null
         ELSE LET area == At(bucket[1].areas[1], 0) IN
              IF area = Null \/ area[1][field] = Null THEN Null
              ELSE At(area[1][field][1], k)

\* the report timestamp of data[e], undefined when the entry or it is absent
ReportOf(data, e) ==
    IF Entry(data, e) = Null THEN Null ELSE Entry(data, e)[1].reportDatetime

DateLabel(timestampOpt) ==
    IF timestampOpt = Null THEN Unknown ELSE formatDate(Some(SplitT0(timestampOpt[1])))

WeatherLabel(textOpt) ==
    IF TruthyText(textOpt) THEN getWeatherText(textOpt[1]) ELSE Unknown

WithUnit(strOpt, unit) ==
    IF TruthyStr(strOpt) THEN <<strOpt[1], unit>> ELSE Unknown

\* the summary in which each field is read on its own
TodayFieldByField(data) ==
    [date          |-> DateLabel(ReportOf(data, 0)),
     weather       |-> WeatherLabel(LeafOf(data, 0, 0, "weathers", 0)),
     temperature   |-> WithUnit(LeafOf(data, 1, 2, "temps", 1), "degC"),
     precipitation |-> WithUnit(LeafOf(data, 0, 1, "pops", 0), "%")]

\* C8 (as stated): on a non-empty payload extractTodayWeather returns a
\* non-null summary in which exactly the absent fields are "unknown" and
\* the present ones carry their values, whichever fields or enclosing
\* containers are absent.
C8_TodayFieldsIndependent ==
    (exToday # <<>> /\ exInput # Null /\ Len(exInput[1]) > 0)
       => exToday[1] = Some(TodayFieldByField(exInput[1]))

HasTimeSeries(data) ==
    /\ Len(data) > 0
    /\ data[1] # Null
    /\ data[1][1].timeSeries # Null

TimeDefinesOf(data) ==
    LET bucket == At(data[1][1].timeSeries[1], 0) IN
    IF bucket = Null \/ bucket[1].timeDefines = Null THEN <<>>
    ELSE bucket[1].timeDefines[1]

Min(a, b) == IF a < b THEN a ELSE b

\* the first three days zipped by index, each list read on its own
ThreeDayZipped(data) ==
    [i \in 1..Min(3, Len(TimeDefinesOf(data))) |->
        [date    |-> DateLabel(Some(TimeDefinesOf(data)[i])),
         weather |-> WeatherLabel(LeafOf(data, 0, 0, "weathers", i - 1)),
         maxTemp |-> WithUnit(LeafOf(data, 0, 1, "temps", i - 1), "degC"),
         minTemp |-> WithUnit(LeafOf(data, 0, 2, "temps", i - 1), "degC")]]

\* C9 (as stated): on a payload whose first entry has a time series,
\* extractThreeDayWeather returns, never null, the first min(3, number of
\* timeDefines) days zipped by index from the first entry, with "unknown"
\* where the weather, max or min list is too short or absent.
C9_ThreeDayZipsFirstThree ==
    (exThreeDay # <<>> /\ exInput # Null /\ HasTimeSeries(exInput[1]))
       => exThreeDay[1] = Some(ThreeDayZipped(exInput[1]))

=============================================================================
